---- MODULE Spec2Model ----
(***************************************************************************)
(* Deffuant_Model (pyseldon/DeffuantModel.py): the Python front end of the *)
(* Deffuant opinion-dynamics simulation and the engine it drives.          *)
(*                                                                         *)
(* The front end (constructor, run, agent_opinion, set_agent_opinion,      *)
(* __setattr__) is translated from the Python source.  The engine behind   *)
(* seldoncore.SimulationSimpleAgent (pair selection, update rule, the      *)
(* iteration loop, settings validation) is not part of the Python file;    *)
(* it is modelled from the design document (sections 4.3 - 4.5, 6, 7).     *)
(*                                                                         *)
(* Opinions are exact fixed-point numbers: the integer k stands for the    *)
(* opinion k / (10 * Scale), so 0.1 is Scale and 1.0 is 10 * Scale.        *)
(***************************************************************************)
EXTENDS Integers, Sequences, FiniteSets, TLC

\* ------------------------------------------------------------------ bounds
MaxIterations == 2

\* the caller makes at most this many calls of the front end
MaxCalls == 3

\* the models that exist: a run of the program may build several
Models == {1, 2}

\* Python's None where a number is expected, and where a file name is
None == -99
NoFile == "None"

\* directories below the working directory; OldDirs exist before the program
OutputDirs == {"out_a", "out_b", "old"}
OldDirs == {"old"}

\* an unbounded run (max_iterations = None) is followed for this many steps
StepCap == MaxIterations + 1

\* no model takes more than this many interaction steps in all
TotalSteps == Cardinality(OutputDirs \ OldDirs) * StepCap

RECURSIVE Pow(_, _)
Pow(b, e) == IF e = 0 THEN 1 ELSE b * Pow(b, e - 1)

\* the fixed-point unit: every mu below divides it TotalSteps times over
Scale == Pow(4, TotalSteps)

Abs(x) == IF x < 0 THEN -x ELSE x

Min(S) == CHOOSE x \in S : \A y \in S : x <= y

\* the k-th smallest element (k from 0) of a finite set of integers
RECURSIVE Nth(_, _)
Nth(S, k) == IF k = 0 THEN Min(S) ELSE Nth(S \ {Min(S)}, k - 1)

IsSquare(n) == \E r \in 0..n : r * r = n

Side(n) == CHOOSE r \in 0..n : r * r = n

\* ------------------------------------------------ constructor arguments
AgentCounts == {3, 4}

\* initial opinions, in tenths: the agent file (or the generator's draw)
InitialOpinion(i) == <<0, 1, 9, 10>>[i + 1] * Scale

\* network_file: None (the generator builds the network) or an adjacency file
NetworkFiles == {NoFile, "pair"}

MaxIterationsChoices == {None, 0, MaxIterations}

Thresholds == {Scale, 2 * Scale}

\* mu in quarters: 1 stands for 0.25 and 2 for 0.5
Mus == {1, 2}

Half == 2

SeedChoices == {None, 9}

CtorArgs ==
    [n_agents : AgentCounts, network_file : NetworkFiles,
     max_iterations : MaxIterationsChoices, homophily_threshold : Thresholds,
     mu : Mus, use_network : BOOLEAN, rng_seed : SeedChoices]


\* ---------------------------------------------------------------- state
VARIABLES
    args,        \* args[m]: the arguments model m was constructed with
    options,     \* options[m]: self._options (model_settings and rng_seed)
    requested,   \* requested[m]: the value the caller last gave each setting
    opinion,     \* opinion[m][i]: self._simulation.network.agent[i].data.opinion
    Network,     \* Network[m]: self.Network, the model whose network it is
    phase,       \* phase[m]: Initialized, Running, Terminated or Failed
    iteration,   \* iteration[m]: the engine's IterationCounter
    attempts,    \* attempts[m]: update attempts made by the current run
    rng,         \* rng[m]: state of the run's random generator
    pairs,       \* pairs[m]: the pairs the current run has selected, in order
    runlog,      \* runlog[m]: what the last run began with and ended with
    ret,         \* outcome of the last call of the front end
    calls,       \* number of calls of the front end so far
    dirs         \* the output directories that exist

vars == <<args, options, requested, opinion, Network, phase, iteration,
          attempts, rng, pairs, runlog, ret, calls, dirs>>

\* ---------------------------------------------------- the network (engine)
n_agents(m) == args[m].n_agents

Agents(m) == 0 .. (n_agents(m) - 1)

\* square lattice without wrap-around: up, down, left, right
Lattice(n, i) ==
    LET L == Side(n)
        r == i \div L
        c == i % L
    IN  {j \in 0 .. (n - 1) :
            \/ ((j \div L) = r /\ Abs((j % L) - c) = 1)
            \/ ((j % L) = c /\ Abs((j \div L) - r) = 1)}

\* neighbours of agent i in the network model m was constructed with
neighbors_of(m, i) ==
    IF args[m].network_file = "pair"
        THEN (IF i = 0 THEN {1} ELSE IF i = 1 THEN {0} ELSE {})
    ELSE IF IsSquare(n_agents(m)) THEN Lattice(n_agents(m), i)
    ELSE {}

\* ----------------------------------------------- random generator (engine)
RngModulus == 19
RngMultiplier == 13

RngStates == 1 .. (RngModulus - 1)

RngNext(s) == (RngMultiplier * s) % RngModulus

SeedState(seed) == 1 + (seed % (RngModulus - 1))

\* --------------------------------------- Random Interaction Selector (4.3)
MaxRetries == 2

\* next_pair: the pair drawn from generator state s, or a failure
RECURSIVE next_pair(_, _, _, _)
next_pair(m, use_network, s, retries) ==
    LET s1 == RngNext(s)
        i  == s1 % n_agents(m)
        s2 == RngNext(s1)
        others == Agents(m) \ {i}
        nbrs == neighbors_of(m, i)
    IN  IF ~use_network
            THEN [ok |-> TRUE, i |-> i, j |-> Nth(others, s2 % Cardinality(others)),
                  rng |-> s2]
        ELSE IF nbrs # {}
            THEN [ok |-> TRUE, i |-> i, j |-> Nth(nbrs, s2 % Cardinality(nbrs)),
                  rng |-> s2]
        ELSE IF retries > 0 THEN next_pair(m, use_network, s1, retries - 1)
        ELSE [ok |-> FALSE, i |-> i, j |-> i, rng |-> s1]

\* ---------------------------------------------------- Update Rule (4.4)
\* mu * x, exact: x is a multiple of 4 until TotalSteps steps have been taken
Times(mu, x) == (mu * x) \div 4

Update(a, b, threshold, mu) ==
    IF Abs(a - b) >= threshold
        THEN <<a, b>>
        ELSE <<a + Times(mu, b - a), b + Times(mu, a - b)>>


\* ------------------------------------------------- Deffuant_Model.__init__
\* mutant: max_iterations is not handed on; the setting keeps None
DeffuantInit_NoMaxIterations(max_iterations, homophily_threshold, mu, use_network, rng_seed) ==
    [max_iterations |-> None,
     homophily_threshold |-> homophily_threshold,
     mu |-> mu,
     use_network |-> use_network,
     rng_seed |-> rng_seed]

\* mutant: homophily_threshold is not handed on; the setting keeps 0.2
DeffuantInit_NoThreshold(max_iterations, homophily_threshold, mu, use_network, rng_seed) ==
    [max_iterations |-> max_iterations,
     homophily_threshold |-> 2 * Scale,
     mu |-> mu,
     use_network |-> use_network,
     rng_seed |-> rng_seed]

\* mutant: homophily_threshold is stored where mu belongs
DeffuantInit_ThresholdAsMu(max_iterations, homophily_threshold, mu, use_network, rng_seed) ==
    [max_iterations |-> max_iterations,
     homophily_threshold |-> homophily_threshold,
     mu |-> homophily_threshold,
     use_network |-> use_network,
     rng_seed |-> rng_seed]

\* mutant: use_network is not handed on; the setting keeps False
DeffuantInit_NoNetwork(max_iterations, homophily_threshold, mu, use_network, rng_seed) ==
    [max_iterations |-> max_iterations,
     homophily_threshold |-> homophily_threshold,
     mu |-> mu,
     use_network |-> FALSE,
     rng_seed |-> rng_seed]

\* mutant: rng_seed is never handed on; the engine always picks a seed
DeffuantInit_NoSeed(max_iterations, homophily_threshold, mu, use_network, rng_seed) ==
    [max_iterations |-> max_iterations,
     homophily_threshold |-> homophily_threshold,
     mu |-> mu,
     use_network |-> use_network,
     rng_seed |-> None]

\* self._options as the constructor leaves it
DeffuantInit(max_iterations, homophily_threshold, mu, use_network, rng_seed) ==
    [max_iterations |-> max_iterations,
     homophily_threshold |-> homophily_threshold,
     mu |-> mu,
     use_network |-> use_network,
     rng_seed |-> rng_seed]

NoCall == [call |-> "none", m |-> 0, exc |-> "None", line |-> 0, index |-> 0,
           val |-> 0, all |-> <<>>]

Returned(call, m, index, val, all) ==
    [call |-> call, m |-> m, exc |-> "None", line |-> 0, index |-> index,
     val |-> val, all |-> all]

Raised(call, m, index, exc, line) ==
    [call |-> call, m |-> m, exc |-> exc, line |-> line, index |-> index,
     val |-> 0, all |-> <<>>]

NoRun == [settings |-> <<>>, seeded |-> 0, initial |-> <<>>, final |-> <<>>]

\* the state after every model of a has been constructed
Constructed(a) ==
    /\ args = a
    /\ options = [m \in Models |->
            DeffuantInit(a[m].max_iterations, a[m].homophily_threshold, a[m].mu,
                         a[m].use_network, a[m].rng_seed)]
    /\ requested = [m \in Models |->
            [max_iterations |-> a[m].max_iterations,
             homophily_threshold |-> a[m].homophily_threshold,
             mu |-> a[m].mu,
             use_network |-> a[m].use_network,
             rng_seed |-> a[m].rng_seed]]
    /\ opinion = [m \in Models |->
            [i \in 0 .. (a[m].n_agents - 1) |-> InitialOpinion(i)]]
    /\ Network = [m \in Models |-> m]
    /\ phase = [m \in Models |-> "Initialized"]
    /\ iteration = [m \in Models |-> 0]
    /\ attempts = [m \in Models |-> 0]
    /\ rng = [m \in Models |-> 0]
    /\ pairs = [m \in Models |-> <<>>]
    /\ runlog = [m \in Models |-> NoRun]
    /\ ret = NoCall
    /\ calls = 0
    /\ dirs = OldDirs

\* the second model of the main specification: built once, never run, and
\* of another size than the first (n is the first model's agent count)
Bystander(n) ==
    [n_agents |-> IF n = 3 THEN 4 ELSE 3, network_file |-> NoFile,
     max_iterations |-> None, homophily_threshold |-> 2 * Scale, mu |-> Half,
     use_network |-> FALSE, rng_seed |-> None]

Init == \E a \in CtorArgs : Constructed(1 :> a @@ 2 :> Bystander(a.n_agents))

\* the front end is single-threaded: run() returns before the next call starts
Idle == \A m \in Models : phase[m] # "Running"

\* a call of the front end begins
Call == Idle /\ calls < MaxCalls /\ calls' = calls + 1

\* ------------------------------------------------------ engine: validation
\* validate_settings: a lattice needs a square number of agents
ValidSettings(m) == options[m].use_network => IsSquare(n_agents(m))

\* ------------------------------------------------------ Deffuant_Model.run
\* mutant: an existing output directory is reused instead of refused
Run_NoExistsCheck(m, d) ==
    /\ Call
    /\ IF ~ValidSettings(m)
         THEN /\ ret' = Raised("run", m, 0, "ConfigurationError", 127)
              /\ UNCHANGED <<args, options, requested, opinion, Network, phase,
                             iteration, attempts, rng, pairs, runlog, dirs>>
       ELSE /\ dirs' = dirs \cup {d}
            /\ phase' = [phase EXCEPT ![m] = "Running"]
            /\ iteration' = [iteration EXCEPT ![m] = 0]
            /\ attempts' = [attempts EXCEPT ![m] = 0]
            /\ pairs' = [pairs EXCEPT ![m] = <<>>]
            /\ \E s \in RngStates :
                 /\ options[m].rng_seed # None => s = SeedState(options[m].rng_seed)
                 /\ rng' = [rng EXCEPT ![m] = s]
                 /\ runlog' = [runlog EXCEPT ![m] =
                        [settings |-> requested[m], seeded |-> s,
                         initial |-> opinion[m], final |-> <<>>]]
            /\ ret' = Returned("run", m, 0, 0, <<>>)
            /\ UNCHANGED <<args, options, requested, opinion, Network>>

Run(m, d) ==
    /\ Call
    /\ IF ~ValidSettings(m)
         THEN /\ ret' = Raised("run", m, 0, "ConfigurationError", 127)
              /\ UNCHANGED <<args, options, requested, opinion, Network, phase,
                             iteration, attempts, rng, pairs, runlog, dirs>>
       ELSE IF d \in dirs
         THEN /\ ret' = Raised("run", m, 0, "Exception", 134)
              /\ UNCHANGED <<args, options, requested, opinion, Network, phase,
                             iteration, attempts, rng, pairs, runlog, dirs>>
       ELSE /\ dirs' = dirs \cup {d}
            /\ phase' = [phase EXCEPT ![m] = "Running"]
            /\ iteration' = [iteration EXCEPT ![m] = 0]
            /\ attempts' = [attempts EXCEPT ![m] = 0]
            /\ pairs' = [pairs EXCEPT ![m] = <<>>]
            /\ \E s \in RngStates :
                 /\ options[m].rng_seed # None => s = SeedState(options[m].rng_seed)
                 /\ rng' = [rng EXCEPT ![m] = s]
                 /\ runlog' = [runlog EXCEPT ![m] =
                        [settings |-> requested[m], seeded |-> s,
                         initial |-> opinion[m], final |-> <<>>]]
            /\ ret' = Returned("run", m, 0, 0, <<>>)
            /\ UNCHANGED <<args, options, requested, opinion, Network>>

\* ------------------------------------------- engine: Simulation Loop (4.5)
MoreSteps(m) ==
    IF options[m].max_iterations = None
        THEN iteration[m] < StepCap
        ELSE iteration[m] < options[m].max_iterations

\* mutant: a failed selection rolls the agent store back to the run's start
Step_Rollback(m) ==
    /\ phase[m] = "Running"
    /\ MoreSteps(m)
    /\ LET p == next_pair(m, options[m].use_network, rng[m], MaxRetries)
           u == Update(opinion[m][p.i], opinion[m][p.j],
                       options[m].homophily_threshold, options[m].mu)
       IN  /\ rng' = [rng EXCEPT ![m] = p.rng]
           /\ IF p.ok
                THEN /\ opinion' = [opinion EXCEPT ![m] =
                            [opinion[m] EXCEPT ![p.i] = u[1], ![p.j] = u[2]]]
                     /\ iteration' = [iteration EXCEPT ![m] = @ + 1]
                     /\ attempts' = [attempts EXCEPT ![m] = @ + 1]
                     /\ pairs' = [pairs EXCEPT ![m] = Append(@, <<p.i, p.j>>)]
                     /\ UNCHANGED <<phase, ret, runlog>>
                ELSE /\ phase' = [phase EXCEPT ![m] = "Failed"]
                     /\ ret' = Raised("run", m, 0, "NoValidInteraction", 137)
                     /\ opinion' = [opinion EXCEPT ![m] = runlog[m].initial]
                     /\ runlog' = [runlog EXCEPT ![m].final = runlog[m].initial]
                     /\ UNCHANGED <<iteration, attempts, pairs>>
    /\ UNCHANGED <<args, options, requested, Network, calls, dirs>>

\* one interaction step: select a pair, apply the update rule, count it
Step(m) ==
    /\ phase[m] = "Running"
    /\ MoreSteps(m)
    /\ LET p == next_pair(m, options[m].use_network, rng[m], MaxRetries)
           u == Update(opinion[m][p.i], opinion[m][p.j],
                       options[m].homophily_threshold, options[m].mu)
       IN  /\ rng' = [rng EXCEPT ![m] = p.rng]
           /\ IF p.ok
                THEN /\ opinion' = [opinion EXCEPT ![m] =
                            [opinion[m] EXCEPT ![p.i] = u[1], ![p.j] = u[2]]]
                     /\ iteration' = [iteration EXCEPT ![m] = @ + 1]
                     /\ attempts' = [attempts EXCEPT ![m] = @ + 1]
                     /\ pairs' = [pairs EXCEPT ![m] = Append(@, <<p.i, p.j>>)]
                     /\ UNCHANGED <<phase, ret, runlog>>
                ELSE /\ phase' = [phase EXCEPT ![m] = "Failed"]
                     /\ ret' = Raised("run", m, 0, "NoValidInteraction", 137)
                     /\ runlog' = [runlog EXCEPT ![m].final = opinion[m]]
                     /\ UNCHANGED <<opinion, iteration, attempts, pairs>>
    /\ UNCHANGED <<args, options, requested, Network, calls, dirs>>

\* the loop ends; run() stores the simulation's network and returns
Finish(m) ==
    /\ phase[m] = "Running"
    /\ options[m].max_iterations # None
    /\ iteration[m] = options[m].max_iterations
    /\ phase' = [phase EXCEPT ![m] = "Terminated"]
    /\ Network' = [Network EXCEPT ![m] = m]
    /\ runlog' = [runlog EXCEPT ![m].final = opinion[m]]
    /\ UNCHANGED <<args, options, requested, opinion, iteration, attempts, rng,
                   pairs, ret, calls, dirs>>


\* -------------------------------------------- Deffuant_Model.agent_opinion
\* self.Network.n_agents(): the agent count of the network self.Network names
NetworkAgents(m) == n_agents(Network[m])

\* indices the caller passes; None asks for every opinion
Indices == {None, -1, 0, 3, 4}

agent_opinion(m, index) ==
    /\ Call
    /\ ret' = IF index = None
                THEN Returned("agent_opinion", m, 0, 0, opinion[m])
              ELSE IF index < 0 \/ index >= NetworkAgents(m)
                THEN Raised("agent_opinion", m, index, "IndexError", 171)
              ELSE IF index \notin Agents(m)
                THEN Raised("agent_opinion", m, index, "IndexError", 172)
              ELSE Returned("agent_opinion", m, index, opinion[m][index], <<>>)
    /\ UNCHANGED <<args, options, requested, opinion, Network, phase, iteration,
                   attempts, rng, pairs, runlog, dirs>>

\* ---------------------------------------- Deffuant_Model.set_agent_opinion
\* opinions the caller writes
WrittenOpinions == {8 * Scale}

\* mutant: the test index < 0 is missing, so a negative index counts from
\* the end of the agent list
set_agent_opinion_NoNegativeCheck(m, index, value) ==
    /\ Call
    /\ index # None
    /\ IF index >= NetworkAgents(m)
         THEN /\ ret' = Raised("set_agent_opinion", m, index, "IndexError", 186)
              /\ UNCHANGED opinion
       ELSE IF index >= n_agents(m) \/ index < 0 - n_agents(m)
         THEN /\ ret' = Raised("set_agent_opinion", m, index, "IndexError", 188)
              /\ UNCHANGED opinion
       ELSE /\ opinion' = [opinion EXCEPT ![m] = [opinion[m] EXCEPT
                    ![IF index < 0 THEN index + n_agents(m) ELSE index] = value]]
            /\ ret' = Returned("set_agent_opinion", m, index, value, <<>>)
    /\ UNCHANGED <<args, options, requested, Network, phase, iteration,
                   attempts, rng, pairs, runlog, dirs>>

set_agent_opinion(m, index, value) ==
    /\ Call
    /\ index # None
    /\ IF index < 0 \/ index >= NetworkAgents(m)
         THEN /\ ret' = Raised("set_agent_opinion", m, index, "IndexError", 186)
              /\ UNCHANGED opinion
       ELSE IF index \notin Agents(m)
         THEN /\ ret' = Raised("set_agent_opinion", m, index, "IndexError", 188)
              /\ UNCHANGED opinion
       ELSE /\ opinion' = [opinion EXCEPT ![m] = [opinion[m] EXCEPT ![index] = value]]
            /\ ret' = Returned("set_agent_opinion", m, index, value, <<>>)
    /\ UNCHANGED <<args, options, requested, Network, phase, iteration,
                   attempts, rng, pairs, runlog, dirs>>

\* ---------------------------------------------- Deffuant_Model.__setattr__
\* hasattr(self._options.model_settings, name)
SettingNames == {"max_iterations", "homophily_threshold", "mu", "use_network"}

\* the values the caller assigns to max_iterations and to rng_seed
AssignedIterations == {1}
AssignedSeeds == {4}

setattr(m, name, value) ==
    /\ Call
    /\ IF name \in SettingNames
         THEN /\ options' = [options EXCEPT ![m] = [@ EXCEPT ![name] = value]]
              /\ requested' = [requested EXCEPT ![m] = [@ EXCEPT ![name] = value]]
              /\ UNCHANGED Network
       ELSE IF name = "rng_seed"
         THEN /\ options' = [options EXCEPT ![m] = [@ EXCEPT !.rng_seed = value]]
              /\ requested' = [requested EXCEPT ![m] = [@ EXCEPT !.rng_seed = value]]
              /\ UNCHANGED Network
       ELSE IF name = "other_settings"
         THEN UNCHANGED <<options, requested, Network>>
       ELSE /\ name = "Network"
            /\ Network' = [Network EXCEPT ![m] = value]
            /\ UNCHANGED <<options, requested>>
    /\ ret' = Returned("setattr", m, 0, 0, <<>>)
    /\ UNCHANGED <<args, opinion, phase, iteration, attempts, rng, pairs,
                   runlog, dirs>>

\* ------------------------------------------------------- specifications
\* the model the caller drives in the main specification
Driven == {1}

\* the directories the caller of the main specification passes to run
DrivenDirs == {"out_a", "old"}

Next ==
    \/ \E m \in Driven, d \in DrivenDirs : Run(m, d)
    \/ \E m \in Driven : Step(m)
    \/ \E m \in Driven : Finish(m)
    \/ \E m \in Driven, index \in Indices : agent_opinion(m, index)
    \/ \E m \in Driven, index \in Indices, v \in WrittenOpinions :
            set_agent_opinion(m, index, v)
    \/ \E m \in Driven :
         \/ \E v \in AssignedIterations : setattr(m, "max_iterations", v)
         \/ setattr(m, "use_network", TRUE)
         \/ \E v \in AssignedSeeds : setattr(m, "rng_seed", v)
         \/ setattr(m, "other_settings", None)
         \/ \E h \in Models : setattr(m, "Network", h)

Spec == Init /\ [][Next]_vars

\* two models of one size, each built with its own settings and seed, run one
\* after the other by the same caller
PairArgs ==
    [n_agents : {4}, network_file : {NoFile},
     max_iterations : {MaxIterations}, homophily_threshold : {2 * Scale},
     mu : {Half}, use_network : BOOLEAN, rng_seed : SeedChoices]

InitPair == \E a, b \in PairArgs : Constructed(1 :> a @@ 2 :> b)

NextPair ==
    \/ \E m \in Models, d \in OutputDirs : Run(m, d)
    \/ \E m \in Models : Step(m)
    \/ \E m \in Models : Finish(m)
    \/ \E m \in Models, v \in WrittenOpinions : set_agent_opinion(m, 0, v)
    \/ \E m \in Models, v \in AssignedSeeds : setattr(m, "rng_seed", v)

SpecPair == InitPair /\ [][NextPair]_vars


\* ------------------------------------------------------------ properties
\* the settings the caller had given when model m's last run began
RunSettings(m) == runlog[m].settings

HasRun(m) == phase[m] # "Initialized"

\* this step of the engine selected a pair for model m
Stepped(m) == Len(pairs'[m]) = Len(pairs[m]) + 1

LastPair(m) == pairs'[m][Len(pairs'[m])]

\* this step is a call of the front end's operation call on model m
Called(call, m) == calls' = calls + 1 /\ ret'.call = call /\ ret'.m = m

\* the agent store after the update rule has been applied to the pairs ps in order
RECURSIVE ApplyPairs(_, _, _, _)
ApplyPairs(op, ps, threshold, mu) ==
    IF ps = <<>> THEN op
    ELSE LET i == Head(ps)[1]
             j == Head(ps)[2]
             u == Update(op[i], op[j], threshold, mu)
         IN  ApplyPairs([op EXCEPT ![i] = u[1], ![j] = u[2]], Tail(ps), threshold, mu)

\* C1: with max_iterations = N a run makes exactly N update attempts, the
\* attempts that change no opinion included, and then is Terminated; the
\* IterationCounter starts at 0, grows by one per completed step and never
\* exceeds N; until then the loop goes on, and at N it can end.
C1_ExactlyNAttempts ==
    /\ [](\A m \in Models :
            LET N == RunSettings(m).max_iterations
            IN  /\ ~HasRun(m) => iteration[m] = 0
                /\ HasRun(m) => attempts[m] = iteration[m]
                /\ (HasRun(m) /\ N # None) => iteration[m] <= N
                /\ phase[m] = "Terminated" => (N # None /\ attempts[m] = N)
                /\ (phase[m] = "Running" /\ N # None) =>
                       IF iteration[m] < N THEN MoreSteps(m)
                                           ELSE ENABLED Finish(m))
    /\ [][\A m \in Models :
            iteration'[m] # iteration[m] =>
                \/ /\ phase[m] = "Running"
                   /\ iteration'[m] = iteration[m] + 1
                   /\ attempts'[m] = attempts[m] + 1
                \/ /\ phase[m] # "Running"
                   /\ phase'[m] = "Running"
                   /\ iteration'[m] = 0]_vars

\* witness of C1: a run with max_iterations = MaxIterations has terminated
\* after that many attempts, none of which changed an opinion
C1_Witness ==
    /\ phase[1] = "Terminated"
    /\ RunSettings(1).max_iterations = MaxIterations
    /\ attempts[1] = MaxIterations
    /\ opinion[1] = runlog[1].initial

\* C2: a pair whose opinions differ by the homophily threshold or more
\* (equality included) comes back from the update rule unchanged, and a step
\* on such a pair leaves every opinion unchanged.
C2_DissimilarPairUnchanged ==
    /\ [](\A m \in Models :
            phase[m] = "Running" =>
                \A i, j \in Agents(m) : \A t \in Thresholds :
                    Abs(opinion[m][i] - opinion[m][j]) >= t =>
                        Update(opinion[m][i], opinion[m][j], t, RunSettings(m).mu)
                            = <<opinion[m][i], opinion[m][j]>>)
    /\ [][\A m \in Models :
            (/\ Stepped(m)
             /\ Abs(opinion[m][LastPair(m)[1]] - opinion[m][LastPair(m)[2]])
                    >= RunSettings(m).homophily_threshold)
            => opinion'[m] = opinion[m]]_vars

\* witness of C2: the first step of a run took a pair exactly the threshold
\* apart and the agent store is as the run found it
C2_Witness ==
    /\ Len(pairs[1]) = 1
    /\ Abs(runlog[1].initial[pairs[1][1][1]] - runlog[1].initial[pairs[1][1][2]])
           = RunSettings(1).homophily_threshold
    /\ opinion[1] = runlog[1].initial

\* the agent store of the end-to-end scenario after pairs (0,1) and (2,3)
ScenarioResult == [i \in 0 .. 3 |-> (<<1, 1, 19, 19>>[i + 1] * Scale) \div 2]

\* C3: with mu = 0.5 a pair closer than the threshold moves, both from the
\* original opinions, to its midpoint, so the pair's sum is conserved and no
\* other agent changes; opinions 0.0, 0.1, 0.9, 1.0 with threshold 0.2 and
\* pairs (0,1), (2,3) become 0.05, 0.05, 0.95, 0.95.
C3_MidpointAtHalf ==
    /\ [](\A m \in Models :
            (/\ phase[m] = "Running"
             /\ n_agents(m) = 4
             /\ runlog[m].initial = [i \in 0 .. 3 |-> InitialOpinion(i)]
             /\ RunSettings(m).homophily_threshold = 2 * Scale
             /\ RunSettings(m).mu = Half
             /\ pairs[m] = << <<0, 1>>, <<2, 3>> >>)
            => opinion[m] = ScenarioResult)
    /\ [][\A m \in Models :
            (/\ Stepped(m)
             /\ RunSettings(m).mu = Half
             /\ Abs(opinion[m][LastPair(m)[1]] - opinion[m][LastPair(m)[2]])
                    < RunSettings(m).homophily_threshold)
            => LET i == LastPair(m)[1]
                   j == LastPair(m)[2]
               IN  /\ 2 * opinion'[m][i] = opinion[m][i] + opinion[m][j]
                   /\ 2 * opinion'[m][j] = opinion[m][i] + opinion[m][j]
                   /\ opinion'[m][i] + opinion'[m][j] = opinion[m][i] + opinion[m][j]
                   /\ \A k \in Agents(m) \ {i, j} : opinion'[m][k] = opinion[m][k]]_vars

\* witness of C3: the end-to-end scenario has happened
C3_Witness ==
    /\ n_agents(1) = 4
    /\ pairs[1] = << <<0, 1>>, <<2, 3>> >>
    /\ RunSettings(1).mu = Half
    /\ opinion[1] = ScenarioResult

\* C4: agent_opinion(i) and set_agent_opinion(i, v) raise IndexError for every
\* i < 0 and every i >= n, n the size of the agent store, and a call that
\* raises leaves every opinion as it was.
C4_OutOfRangeRaises ==
    [][\A m \in Models :
        /\ (/\ Called("agent_opinion", m) \/ Called("set_agent_opinion", m)
            /\ ret'.index # None
            /\ ret'.index < 0 \/ ret'.index >= n_agents(m))
           => (ret'.exc = "IndexError" /\ opinion' = opinion)
        /\ (Called("set_agent_opinion", m) /\ ret'.exc # "None")
           => opinion' = opinion]_vars

\* witness of C4: set_agent_opinion(n, v) and nothing written
C4_Witness ==
    /\ ret.call = "set_agent_opinion"
    /\ ret.index = n_agents(ret.m)
    /\ ret.exc = "IndexError"
    /\ opinion[1] = [i \in Agents(1) |-> InitialOpinion(i)]

\* C5: a run refused at entry (a lattice asked for with a non-square agent
\* count, or an output directory that exists) raises before the simulation
\* starts: no directory is made, the IterationCounter and every opinion stay as
\* they were (0 and the initial store if no run was started before); and a
\* run starts only with valid settings and a directory it has just made.
C5_RejectedRunStartsNothing ==
    /\ [](\A m \in Models : ~HasRun(m) => (iteration[m] = 0 /\ pairs[m] = <<>>))
    /\ [][\A m \in Models :
            Called("run", m) =>
              /\ (RunSettings(m)' # RunSettings(m) \/ phase'[m] = "Running")
                    <=> ret'.exc = "None"
              /\ ret'.exc = "None" =>
                    /\ ~(requested[m].use_network /\ ~IsSquare(n_agents(m)))
                    /\ dirs' # dirs
              /\ (requested[m].use_network /\ ~IsSquare(n_agents(m)))
                    => ret'.exc = "ConfigurationError"
              /\ ret'.exc # "None" =>
                    /\ ret'.exc \in {"ConfigurationError", "Exception"}
                    /\ UNCHANGED <<opinion, iteration, attempts, phase, pairs,
                                   rng, runlog, dirs, Network>>]_vars

\* witness of C5: the first call was a run into the directory that exists
C5_Witness ==
    /\ ret.call = "run"
    /\ ret.exc = "Exception"
    /\ phase[1] = "Initialized"
    /\ iteration[1] = 0


\* C7: every pair the selector returns has two distinct agents of the store;
\* with the network enabled the partner is a neighbour of the focal agent, so
\* an agent without neighbours is never the focal agent.
C7_SelectedPairsLegal ==
    \A m \in Models : \A k \in 1 .. Len(pairs[m]) :
        LET i == pairs[m][k][1]
            j == pairs[m][k][2]
        IN  /\ i # j
            /\ i \in Agents(m)
            /\ j \in Agents(m)
            /\ RunSettings(m).use_network =>
                  (j \in neighbors_of(m, i) /\ neighbors_of(m, i) # {})

\* witness of C7: a run on a network with isolated agents has selected pairs
C7_Witness ==
    /\ Len(pairs[1]) = MaxIterations
    /\ RunSettings(1).use_network
    /\ \E i \in Agents(1) : neighbors_of(1, i) = {}

\* C8: when the selector fails during a run, the run ends at once in the
\* error state with NoValidInteraction raised, that step changes no opinion
\* and no counter, no further step can be taken, and the agent store holds
\* exactly what the completed steps produced.
C8_FailureKeepsCompletedSteps ==
    /\ [](\A m \in Models :
            phase[m] = "Failed" =>
                /\ ~ENABLED Step(m)
                /\ ~ENABLED Finish(m)
                /\ Len(pairs[m]) = iteration[m]
                /\ runlog[m].final =
                       ApplyPairs(runlog[m].initial, pairs[m],
                                  RunSettings(m).homophily_threshold,
                                  RunSettings(m).mu))
    /\ [][\A m \in Models :
            (phase[m] = "Running" /\ phase'[m] = "Failed") =>
                /\ ret'.exc = "NoValidInteraction"
                /\ opinion' = opinion
                /\ runlog'[m].final = opinion[m]
                /\ UNCHANGED <<iteration, attempts, pairs>>]_vars

\* witness of C8: a run failed after a completed step had changed the store
C8_Witness ==
    /\ phase[1] = "Failed"
    /\ Len(pairs[1]) >= 1
    /\ opinion[1] # runlog[1].initial
    /\ opinion[1] = runlog[1].final

\* C9, as claimed: set_agent_opinion(i, v) with 0 <= i < n returns, agent i
\* holds v afterwards, and no other opinion and no size changes.
C9_SetOverwritesOneAgent ==
    [][\A m \in Models :
        (Called("set_agent_opinion", m) /\ ret'.index \in Agents(m)) =>
            /\ ret'.exc = "None"
            /\ opinion'[m][ret'.index] = ret'.val
            /\ ret'.val \in WrittenOpinions
            /\ DOMAIN opinion'[m] = DOMAIN opinion[m]
            /\ \A k \in Agents(m) \ {ret'.index} : opinion'[m][k] = opinion[m][k]
            /\ \A o \in Models \ {m} : opinion'[o] = opinion[o]]_vars

\* C10, as claimed: self.Network is always the network of the model's own
\* simulation, and an access that passed the bounds test never leaves the
\* agent list.
C10_NetworkHandleIsCurrent ==
    /\ \A m \in Models : Network[m] = m
    /\ ret.exc = "IndexError" => ret.line \in {171, 186}


\* model m's last run is over
RunOver(m) == phase[m] \in {"Terminated", "Failed"}

\* the runs of models a and b had the same seed, settings, network and agents
SameRun(a, b) ==
    /\ RunSettings(a) = RunSettings(b)
    /\ RunSettings(a).rng_seed # None
    /\ args[a].n_agents = args[b].n_agents
    /\ args[a].network_file = args[b].network_file
    /\ runlog[a].initial = runlog[b].initial

\* C6: two runs with the same rng_seed, the same settings and the same
\* initial agent store select the same pairs in the same order and end with
\* the same opinions.
C6_SameSeedSameRun ==
    \A a, b \in Models :
        (RunOver(a) /\ RunOver(b) /\ SameRun(a, b)) =>
            /\ pairs[a] = pairs[b]
            /\ runlog[a].final = runlog[b].final
            /\ phase[a] = phase[b]

\* witness of C6: two models have finished equal runs that changed opinions
C6_Witness ==
    /\ phase[1] = "Terminated"
    /\ phase[2] = "Terminated"
    /\ SameRun(1, 2)
    /\ Len(pairs[1]) = MaxIterations
    /\ runlog[1].final # runlog[1].initial

====
